---- MODULE Spec2Model ----
(***************************************************************************)
(* Model of setup.py of Attack_SplitNN: read_requirements() opens          *)
(* ./requirements.txt in text mode, collects line.rstrip() for every line  *)
(* and returns the list; the module body then evaluates the keyword        *)
(* arguments of setup(...) in order (install_requires=read_requirements(), *)
(* packages=find_packages(where="src")) and calls setup.                   *)
(*                                                                         *)
(* Strings read from the file are sequences of one-character strings.      *)
(***************************************************************************)
EXTENDS Integers, Sequences, FiniteSets, TLC

\* ---- bounds ----
MaxLen == 4          \* longest requirements file, in characters
MaxCalls == 2        \* calls of read_requirements in the reader harness

\* Characters a requirements file is made of here: a name character, a
\* comment character, space, tab and the two terminator characters.
Chars == {"a", "#", " ", "\t", "\n", "\r"}

RECURSIVE SeqsUpTo(_)
SeqsUpTo(n) ==
  IF n = 0 THEN {<<>>}
  ELSE LET S == SeqsUpTo(n - 1)
       IN  S \cup {Append(s, c) : s \in {t \in S : Len(t) = n - 1}, c \in Chars}

Contents == SeqsUpTo(MaxLen)

\* What find_packages(where="src") may return: opaque, any set of packages.
PackageSets == SUBSET {"attacksplitnn", "attacksplitnn.attack"}

VARIABLES
  openable,         \* ./requirements.txt exists and can be opened
  fileContent,      \* raw characters of ./requirements.txt
  pc,               \* position of the script
  f,                \* the file handle of the with block: none / open / closed
  pos,              \* index of the next unread character of the decoded text
  requirements,     \* the list the comprehension is building
  returned,         \* the lists read_requirements has returned, in call order
  error,            \* the exception that left the script, or "none"
  console_scripts,  \* module-level list
  packages,         \* result of find_packages
  setup_calls,      \* metadata records handed to setup()
  opens, closes, finds   \* how often open(), f.close(), find_packages() ran

vars == <<openable, fileContent, pc, f, pos, requirements, returned, error,
          console_scripts, packages, setup_calls, opens, closes, finds>>

\* ---- text-mode file semantics of open(reqs_path, 'r') ----

OpenMode_Write == "w"
OpenMode == "r"

\* Opening for writing truncates; opening for reading leaves the file alone.
ContentAfterOpen(mode, content) == IF mode = "w" THEN <<>> ELSE content

\* Universal newlines (newline=None): \r\n and a lone \r are read as \n.
RECURSIVE Translate(_)
Translate(raw) ==
  IF raw = <<>> THEN <<>>
  ELSE IF Head(raw) = "\r"
       THEN <<"\n">> \o Translate(IF Len(raw) > 1 /\ raw[2] = "\n"
                                  THEN Tail(Tail(raw)) ELSE Tail(raw))
       ELSE <<Head(raw)>> \o Translate(Tail(raw))

\* Iteration over f ends when nothing is left to read.
AtEOF_DropTail(text, p) == \A j \in p..Len(text) : text[j] # "\n"
AtEOF(text, p) == p > Len(text)

\* f.readline(): the characters from p up to and including the next "\n",
\* or up to the end of the text when no "\n" follows.
readline(text, p) ==
  LET nl == {j \in p..Len(text) : text[j] = "\n"}
      e  == IF nl = {} THEN Len(text)
            ELSE CHOOSE j \in nl : \A k \in nl : j <= k
  IN  SubSeq(text, p, e)

\* str.isspace() characters
Whitespace == {" ", "\t", "\n", "\r"}

\* str.rstrip() without argument: drop whitespace from the right end.
RECURSIVE rstrip(_)
RECURSIVE rstrip_newline(_)
rstrip_newline(s) ==
  IF s # <<>> /\ s[Len(s)] \in {"\n", "\r"}
  THEN rstrip_newline(SubSeq(s, 1, Len(s) - 1)) ELSE s
RECURSIVE lstrip(_)
lstrip(s) == IF s # <<>> /\ Head(s) \in Whitespace THEN lstrip(Tail(s)) ELSE s
rstrip(s) ==
  IF s # <<>> /\ s[Len(s)] \in Whitespace
  THEN rstrip(SubSeq(s, 1, Len(s) - 1)) ELSE s
strip(s) == lstrip(rstrip(s))

\* One round of the comprehension [line.rstrip() for line in f].
Collect_SkipBlank(reqs, line) ==
  IF rstrip(line) = <<>> THEN reqs ELSE Append(reqs, rstrip(line))
Collect_Strip(reqs, line) == Append(reqs, strip(line))
Collect_NewlineOnly(reqs, line) == Append(reqs, rstrip_newline(line))
Collect(reqs, line) == Append(reqs, rstrip(line))

\* The keyword arguments of setup(...).
MetadataRecord_NoDeps(reqs, pkgs, scripts) ==
  [name |-> "attacksplitnn", version |-> "0.0.0",
   description |-> "Attacking SplitNN", author |-> "Koukyosyumei",
   author_email |-> "koukyosyumei@hotmail.com", license |-> "MIT",
   install_requires |-> <<>>,
   url |-> "https://github.com/Koukyosyumei/Attack_SplitNN",
   package_dir |-> "src", packages |-> pkgs,
   entry_points |-> [console_scripts |-> scripts]]
MetadataRecord(reqs, pkgs, scripts) ==
  [name |-> "attacksplitnn", version |-> "0.0.0",
   description |-> "Attacking SplitNN", author |-> "Koukyosyumei",
   author_email |-> "koukyosyumei@hotmail.com", license |-> "MIT",
   install_requires |-> reqs,
   url |-> "https://github.com/Koukyosyumei/Attack_SplitNN",
   package_dir |-> "src", packages |-> pkgs,
   entry_points |-> [console_scripts |-> scripts]]

\* ---- state machine ----

Init ==
  /\ openable \in BOOLEAN
  /\ fileContent \in Contents
  /\ pc = "start"
  /\ f = "none"
  /\ pos = 1
  /\ requirements = <<>>
  /\ returned = <<>>
  /\ error = "none"
  /\ console_scripts = <<>>
  /\ packages = {}
  /\ setup_calls = <<>>
  /\ opens = 0 /\ closes = 0 /\ finds = 0

\* read_requirements() is entered and open(reqs_path, 'r') succeeds.
Open ==
  /\ pc = "start" /\ openable
  /\ pc' = "reading"
  /\ f' = "open"
  /\ pos' = 1
  /\ requirements' = <<>>
  /\ opens' = opens + 1
  /\ fileContent' = ContentAfterOpen(OpenMode, fileContent)
  /\ UNCHANGED <<openable, returned, error, console_scripts, packages,
                 setup_calls, closes, finds>>

\* open(reqs_path, 'r') raises; nothing catches it, the script ends.
OpenFail_ReturnsEmpty ==
  /\ pc = "start" /\ ~openable
  /\ pc' = "returned"
  /\ returned' = Append(returned, <<>>)
  /\ opens' = opens + 1
  /\ UNCHANGED <<openable, fileContent, f, pos, requirements, error,
                 console_scripts, packages, setup_calls, closes, finds>>
OpenFail ==
  /\ pc = "start" /\ ~openable
  /\ pc' = "failed"
  /\ error' = "open failed"
  /\ opens' = opens + 1
  /\ UNCHANGED <<openable, fileContent, f, pos, requirements, returned,
                 console_scripts, packages, setup_calls, closes, finds>>

\* The comprehension takes the next line of f.
NextLine ==
  /\ pc = "reading"
  /\ ~AtEOF(Translate(fileContent), pos)
  /\ LET line == readline(Translate(fileContent), pos)
     IN  /\ requirements' = Collect(requirements, line)
         /\ pos' = pos + Len(line)
  /\ UNCHANGED <<openable, fileContent, pc, f, returned, error,
                 console_scripts, packages, setup_calls, opens, closes, finds>>

\* Reading raises partway (I/O or decoding error): the with block closes f
\* and the exception leaves read_requirements and the script.
ReadFail_Leak ==
  /\ pc = "reading"
  /\ pc' = "failed"
  /\ error' = "read failed"
  /\ UNCHANGED <<openable, fileContent, f, pos, requirements, returned,
                 console_scripts, packages, setup_calls, opens, closes, finds>>
ReadFail_Fallback ==
  /\ pc = "reading"
  /\ pc' = "returned"
  /\ f' = "closed"
  /\ closes' = closes + 1
  /\ error' = "read failed"
  /\ returned' = Append(returned, requirements)
  /\ UNCHANGED <<openable, fileContent, pos, requirements,
                 console_scripts, packages, setup_calls, opens, finds>>
ReadFail ==
  /\ pc = "reading"
  /\ pc' = "failed"
  /\ f' = "closed"
  /\ closes' = closes + 1
  /\ error' = "read failed"
  /\ UNCHANGED <<openable, fileContent, pos, requirements, returned,
                 console_scripts, packages, setup_calls, opens, finds>>

\* The iteration is exhausted: the with block closes f, the list is returned.
ExitWith ==
  /\ pc = "reading"
  /\ AtEOF(Translate(fileContent), pos)
  /\ pc' = "returned"
  /\ f' = "closed"
  /\ closes' = closes + 1
  /\ returned' = Append(returned, requirements)
  /\ UNCHANGED <<openable, fileContent, pos, requirements, error,
                 console_scripts, packages, setup_calls, opens, finds>>

\* packages=find_packages(where="src"), evaluated after install_requires.
FindPackages_BeforeRead ==
  /\ pc = "start"
  /\ \E pk \in PackageSets : packages' = pk
  /\ finds' = finds + 1
  /\ finds = 0
  /\ UNCHANGED <<openable, fileContent, pc, f, pos, requirements, returned,
                 error, console_scripts, setup_calls, opens, closes>>
FindPackages ==
  /\ pc = "returned"
  /\ pc' = "found"
  /\ \E pk \in PackageSets : packages' = pk
  /\ finds' = finds + 1
  /\ UNCHANGED <<openable, fileContent, f, pos, requirements, returned,
                 error, console_scripts, setup_calls, opens, closes>>

\* All arguments are evaluated: setup(...) receives the record.
Setup ==
  /\ pc = "found"
  /\ pc' = "done"
  /\ setup_calls' = Append(setup_calls,
        MetadataRecord(returned[Len(returned)], packages, console_scripts))
  /\ UNCHANGED <<openable, fileContent, f, pos, requirements, returned,
                 error, console_scripts, packages, opens, closes, finds>>

Next == Open \/ OpenFail \/ NextLine \/ ReadFail \/ ExitWith
        \/ FindPackages \/ Setup

Spec == Init /\ [][Next]_vars

\* ---- reader harness: read_requirements called repeatedly ----

CallAgain ==
  /\ pc = "returned"
  /\ Len(returned) < MaxCalls
  /\ pc' = "start"
  /\ UNCHANGED <<openable, fileContent, f, pos, requirements, returned,
                 error, console_scripts, packages, setup_calls, opens,
                 closes, finds>>

NextReader == Open \/ OpenFail \/ NextLine \/ ReadFail \/ ExitWith
              \/ CallAgain

SpecReader == Init /\ [][NextReader]_vars

\* ---- the file as the claims see it: lines of the raw content ----

\* Position i holds the last character of a line terminator (\n, \r\n, \r).
IsTermEnd(raw, i) ==
  \/ raw[i] = "\n"
  \/ raw[i] = "\r" /\ ~(i < Len(raw) /\ raw[i + 1] = "\n")

TermEnds(raw) == {i \in 1..Len(raw) : IsTermEnd(raw, i)}

\* Number of terminated lines.
NumTerminated(raw) == Cardinality(TermEnds(raw))

\* The content ends in a non-empty line without terminator.
HasTail(raw) == raw # <<>> /\ ~IsTermEnd(raw, Len(raw))

NumLines(raw) == NumTerminated(raw) + (IF HasTail(raw) THEN 1 ELSE 0)

\* Line i of the content, without its terminator.
LineBody(raw, i) ==
  LET before == {e \in TermEnds(raw) :
                   Cardinality({x \in TermEnds(raw) : x <= e}) = i - 1}
      start  == IF i = 1 THEN 1 ELSE (CHOOSE e \in before : TRUE) + 1
      body   == {j \in start..Len(raw) :
                   \A m \in start..j : raw[m] \notin {"\n", "\r"}}
  IN  SubSeq(raw, start, start + Cardinality(body) - 1)

Blank == {" ", "\t"}

IsPrefix(s, t) == Len(s) <= Len(t) /\ s = SubSeq(t, 1, Len(s))

\* s is t with a (possibly empty) run of spaces and tabs cut off its end.
CutsOnlyBlanks(s, t) ==
  /\ IsPrefix(s, t)
  /\ \A j \in (Len(s) + 1)..Len(t) : t[j] \in Blank

AllBlank(t) == \A j \in 1..Len(t) : t[j] \in Blank

Results == {returned[k] : k \in 1..Len(returned)}

\* ---- claims ----

\* C1: the list read_requirements returns has exactly one element per line
\* of the file, in line order; every element comes from its own line; a
\* blank line gives the empty string; an empty file gives the empty list.
C1_OneElementPerLine ==
  \A r \in Results :
    /\ Len(r) = NumLines(fileContent)
    /\ \A i \in 1..Len(r) :
         /\ IsPrefix(r[i], LineBody(fileContent, i))
         /\ (LineBody(fileContent, i) = <<>> => r[i] = <<>>)
    /\ (fileContent = <<>> => r = <<>>)

C1_Witness ==
  /\ Len(returned) = 1
  /\ Len(returned[1]) = 3
  /\ returned[1][1] # <<>>
  /\ returned[1][2] = <<>>
  /\ returned[1][3] # <<>>

C3_OpenFailurePropagates ==
  ~openable =>
    /\ returned = <<>>
    /\ requirements = <<>>
    /\ f = "none"
    /\ pc \in {"start", "failed"}
    /\ (opens > 0 => pc = "failed" /\ error = "open failed")

C3_Witness == ~openable /\ pc = "failed" /\ opens = 1 /\ fileContent # <<>>

\* C4: the file handle is open only while read_requirements is reading;
\* once control has left the reader, by return or by a read error, the
\* handle opened is closed, and it is closed exactly as often as opened.
C4_HandleClosedOnExit ==
  /\ (f = "open" <=> pc = "reading")
  /\ (pc \in {"returned", "found", "done"} => f = "closed" /\ closes = opens)
  /\ (pc = "failed" /\ error = "read failed" => f = "closed" /\ closes = opens)

C4_Witness ==
  /\ pc = "failed" /\ error = "read failed"
  /\ Len(requirements) = 1 /\ ~AtEOF(Translate(fileContent), pos)
  /\ f = "closed"

\* C5: once reading has failed, at open or partway, the run is in its
\* failure state and stays there: open was attempted once, no list was
\* returned, find_packages and setup were not called, and no later step
\* changes that.
C5_NoRecoveryAfterFailure ==
  /\ [](error # "none" =>
          /\ pc = "failed"
          /\ opens = 1
          /\ returned = <<>>
          /\ finds = 0
          /\ setup_calls = <<>>)
  /\ [][error # "none" =>
          /\ error' = error
          /\ opens' = opens
          /\ setup_calls' = setup_calls]_vars

C5_Witness ==
  /\ error = "read failed" /\ pc = "failed"
  /\ requirements # <<>> /\ setup_calls = <<>>

\* C6: open, close, find_packages and setup each happen at most once and in
\* that order: find_packages runs only after the file is read to its end and
\* closed, setup only after find_packages, and the record is never handed
\* over with the handle open or the list incomplete.
C6_EffectsInOrder ==
  /\ [](/\ opens <= 1 /\ closes <= 1 /\ finds <= 1 /\ Len(setup_calls) <= 1
        /\ closes <= opens
        /\ Len(returned) <= closes
        /\ finds <= Len(returned)
        /\ Len(setup_calls) <= finds
        /\ (finds = 1 \/ setup_calls # <<>> =>
              /\ f = "closed"
              /\ AtEOF(Translate(fileContent), pos)
              /\ returned = <<requirements>>
              /\ Len(requirements) = NumLines(fileContent)))
  /\ [][/\ (finds' # finds => f = "closed" /\ Len(returned) = 1)
        /\ (setup_calls' # setup_calls => finds = 1 /\ f = "closed")]_vars

C6_Witness ==
  /\ pc = "done" /\ opens = 1 /\ closes = 1 /\ finds = 1
  /\ Len(setup_calls) = 1 /\ Len(requirements) = 2

\* C7: the record handed to setup carries the returned list as its
\* dependency list, an empty console_scripts list, and the literal name,
\* version and license, whatever the file holds.
C7_RecordFields ==
  \A k \in 1..Len(setup_calls) :
    /\ Len(returned) = 1
    /\ setup_calls[k].install_requires = returned[1]
    /\ Len(setup_calls[k].install_requires) = NumLines(fileContent)
    /\ setup_calls[k].entry_points.console_scripts = <<>>
    /\ setup_calls[k].name = "attacksplitnn"
    /\ setup_calls[k].version = "0.0.0"
    /\ setup_calls[k].license = "MIT"

C7_Witness ==
  /\ pc = "done"
  /\ Len(setup_calls) = 1
  /\ Len(setup_calls[1].install_requires) = 2
  /\ setup_calls[1].install_requires[2] # <<>>

\* C8: read_requirements leaves the file content, the file's presence and
\* the module-level console_scripts as they were, and calls on the unchanged
\* file return equal lists.
C8_ReaderHasNoSideEffect ==
  /\ [](\A r1, r2 \in Results : r1 = r2)
  /\ [][/\ fileContent' = fileContent
        /\ openable' = openable
        /\ console_scripts' = console_scripts]_vars

C8_Witness ==
  /\ Len(returned) = 2
  /\ Len(returned[2]) = 2
  /\ fileContent # <<>>

\* C9: every element is its line without its trailing whitespace: the part
\* cut off is whitespace only, the element does not end in whitespace,
\* holds no terminator, and rstrip leaves it as it is.
C9_TrailingWhitespaceRemoved ==
  \A r \in Results :
    \A i \in 1..Len(r) :
      /\ CutsOnlyBlanks(r[i], LineBody(fileContent, i))
      /\ (r[i] # <<>> => r[i][Len(r[i])] \notin Whitespace)
      /\ \A j \in 1..Len(r[i]) : r[i][j] \notin {"\n", "\r"}
      /\ rstrip(r[i]) = r[i]

C9_Witness ==
  /\ Len(returned) = 1
  /\ Len(returned[1]) = 1
  /\ returned[1][1] = <<"a">>
  /\ Len(LineBody(fileContent, 1)) = 3

\* C10 as stated: the element of an unterminated tail is the tail itself.
C10_Original ==
  \A r \in Results :
    HasTail(fileContent) =>
      /\ Len(r) = NumTerminated(fileContent) + 1
      /\ r[Len(r)] = LineBody(fileContent, NumTerminated(fileContent) + 1)

\* C10 amended: k terminated lines followed by a non-empty unterminated tail
\* give k+1 elements, the last being the tail without its trailing
\* whitespace; content ending in a terminator gives k elements.
C10_UnterminatedTail ==
  \A r \in Results :
    LET k    == NumTerminated(fileContent)
        tail == LineBody(fileContent, k + 1)
    IN  /\ HasTail(fileContent) =>
             /\ Len(r) = k + 1
             /\ tail # <<>>
             /\ CutsOnlyBlanks(r[k + 1], tail)
             /\ (r[k + 1] # <<>> => r[k + 1][Len(r[k + 1])] \notin Blank)
        /\ ~HasTail(fileContent) => Len(r) = k

C10_Witness ==
  /\ Len(returned) = 1
  /\ HasTail(fileContent)
  /\ NumTerminated(fileContent) = 1
  /\ returned[1] = <<<<"a">>, <<"#">>>>
  /\ Len(fileContent) = 4

====
